---- MODULE Spec2Model ----
(***************************************************************************)
(* A model of pytally's Forms resource (tally/resources/forms.py) and of   *)
(* the Form model family (tally/models/form.py): decoding of wire JSON     *)
(* into entities, encoding of entities into request payloads, the          *)
(* single-request operations all/get/create and the page-flattening        *)
(* generator FormsResource.__iter__.                                       *)
(*                                                                         *)
(* JSON objects are functions from wire keys to values; a key that is      *)
(* absent from the object is absent from the function's DOMAIN.  A Python  *)
(* call either returns a value, Ok(v), or raises an exception, Raise(e).   *)
(***************************************************************************)
EXTENDS Integers, Sequences, FiniteSets, TLC

\* ------------------------------------------------------------------ bounds

\* The mock server scripts answers for pages 1..MaxPages; a walk does not
\* request a page beyond it.
MaxPages == 3

\* ------------------------------------------------------- results of a call

Ok(v) == [ok |-> TRUE, value |-> v]

Raise(e) == [ok |-> FALSE, error |-> e]

\* Python's None, which is JSON null on the wire.
None == [none |-> TRUE]

\* A value of an Optional attribute or argument that is not None.
Some(v) == [some |-> v]

KeyError(k) == [type |-> "KeyError", arg |-> k]

ValueError(a) == [type |-> "ValueError", arg |-> a]

\* ---------------------------------------------------------------- helpers

Min(S) == CHOOSE x \in S : \A y \in S : x <= y

RECURSIVE Concat(_)
\* The concatenation of a sequence of sequences.
Concat(ss) == IF ss = <<>> THEN <<>> ELSE Head(ss) \o Concat(Tail(ss))

IsPrefix(s, t) == Len(s) <= Len(t) /\ SubSeq(t, 1, Len(s)) = s

\* ------------------------------------------------------------- FormStatus

FormStatusValues == {"BLANK", "DRAFT", "PUBLISHED", "DELETED"}

\* FormStatus(value): the enum member whose value is the string, by exact
\* match; any other value raises ValueError.
FormStatus(v) ==
  IF v \in FormStatusValues
    THEN Ok([enum |-> "FormStatus", member |-> v])
    ELSE Raise(ValueError(v))

\* ------------------------------------------------------------- timestamps

\* str.replace("Z", "+00:00") on the wire strings of the model.
ReplaceZ(s) ==
  CASE s = "2024-01-01T00:00:00Z" -> "2024-01-01T00:00:00+00:00"
    [] s = "2024-01-02T08:30:00Z" -> "2024-01-02T08:30:00+00:00"
    [] OTHER -> s

\* datetime.fromisoformat on the strings of the model: an aware instant, or
\* ValueError for a string that is no ISO-8601 date-time.
FromIsoformat(s) ==
  CASE s = "2024-01-01T00:00:00+00:00"
         -> Ok([date |-> "2024-01-01", time |-> "00:00:00", utcoffset |-> 0])
    [] s = "2024-01-02T08:30:00+00:00"
         -> Ok([date |-> "2024-01-02", time |-> "08:30:00", utcoffset |-> 0])
    [] s = "2024-01-02T09:30:00+01:00"
         -> Ok([date |-> "2024-01-02", time |-> "09:30:00", utcoffset |-> 60])
    [] OTHER -> Raise(ValueError(s))

ParseTimestamp(s) == FromIsoformat(ReplaceZ(s))

\* ------------------------------------------------------------ FormPayment

\* FormPayment.from_dict
FormPayment_from_dict(data) ==
  IF "amount" \notin DOMAIN data THEN Raise(KeyError("amount"))
  ELSE IF "currency" \notin DOMAIN data THEN Raise(KeyError("currency"))
  ELSE Ok([cls |-> "FormPayment", amount |-> data["amount"],
           currency |-> data["currency"]])

\* FormPayment.to_dict with the amount converted to minor units.
FormPayment_to_dict_cents(p) ==
  [amount |-> p.amount * 100, currency |-> p.currency]

\* FormPayment.to_dict
FormPayment_to_dict(p) == [amount |-> p.amount, currency |-> p.currency]

\* Python truthiness of data.get("payments"): the key is present and holds
\* a non-empty list (a list on the wire is [list |-> <<...>>]).
PaymentsTruthy(data) ==
  /\ "payments" \in DOMAIN data
  /\ data["payments"] # None
  /\ data["payments"].list # <<>>

\* DecodePayments without the truthiness guard: every list that is present
\* is decoded element-wise, the empty list to an empty list.
DecodePaymentsKeepEmpty(data) ==
  IF "payments" \notin DOMAIN data \/ data["payments"] = None THEN Ok(None)
  ELSE LET ps == data["payments"].list
           bad == {i \in 1..Len(ps) : ~FormPayment_from_dict(ps[i]).ok}
       IN IF bad # {}
            THEN Raise(FormPayment_from_dict(ps[Min(bad)]).error)
            ELSE Ok([list |->
                      [i \in 1..Len(ps) |-> FormPayment_from_dict(ps[i]).value]])

\* The payments attribute: the element-wise decode of a non-empty list, or
\* None; the first element that fails to decode raises.
DecodePayments(data) ==
  IF ~PaymentsTruthy(data) THEN Ok(None)
  ELSE LET ps == data["payments"].list
           bad == {i \in 1..Len(ps) : ~FormPayment_from_dict(ps[i]).ok}
       IN IF bad # {}
            THEN Raise(FormPayment_from_dict(ps[Min(bad)]).error)
            ELSE Ok([list |->
                      [i \in 1..Len(ps) |-> FormPayment_from_dict(ps[i]).value]])

\* --------------------------------------------------------------- Form

\* The required wire keys in the order the constructor call reads them.
FormKeys ==
  << "id", "name", "workspaceId", "status", "numberOfSubmissions",
     "isClosed", "createdAt", "updatedAt" >>

\* The keyword arguments of cls(...) are evaluated in order; the first one
\* that raises ends the decode.  i is the position in FormKeys.
RECURSIVE DecodeFormFrom(_, _, _)
DecodeFormFrom(data, i, acc) ==
  IF i > Len(FormKeys)
    THEN LET p == DecodePayments(data)
         IN IF p.ok THEN Ok([acc EXCEPT !.payments = p.value])
                    ELSE Raise(p.error)
    ELSE LET k == FormKeys[i] IN
      IF k \notin DOMAIN data THEN Raise(KeyError(k))
      ELSE CASE k = "id" ->
                  DecodeFormFrom(data, i + 1, [acc EXCEPT !.id = data[k]])
             [] k = "name" ->
                  DecodeFormFrom(data, i + 1, [acc EXCEPT !.name = data[k]])
             [] k = "workspaceId" ->
                  DecodeFormFrom(data, i + 1,
                                 [acc EXCEPT !.workspace_id = data[k]])
             [] k = "status" ->
                  LET s == FormStatus(data[k])
                  IN IF s.ok
                       THEN DecodeFormFrom(data, i + 1,
                                           [acc EXCEPT !.status = s.value])
                       ELSE Raise(s.error)
             [] k = "numberOfSubmissions" ->
                  DecodeFormFrom(data, i + 1,
                                 [acc EXCEPT !.number_of_submissions = data[k]])
             [] k = "isClosed" ->
                  DecodeFormFrom(data, i + 1,
                                 [acc EXCEPT !.is_closed = data[k]])
             [] k = "createdAt" ->
                  LET t == ParseTimestamp(data[k])
                  IN IF t.ok
                       THEN DecodeFormFrom(data, i + 1,
                                           [acc EXCEPT !.created_at = t.value])
                       ELSE Raise(t.error)
             [] k = "updatedAt" ->
                  LET t == ParseTimestamp(data[k])
                  IN IF t.ok
                       THEN DecodeFormFrom(data, i + 1,
                                           [acc EXCEPT !.updated_at = t.value])
                       ELSE Raise(t.error)

\* The attributes of a Form / FormCreated before the constructor fills them.
BlankEntity(cls) ==
  [class |-> cls, id |-> "", name |-> "", workspace_id |-> "",
   status |-> [enum |-> "FormStatus", member |-> ""],
   number_of_submissions |-> 0, is_closed |-> FALSE,
   created_at |-> [date |-> "", time |-> "", utcoffset |-> 0],
   updated_at |-> [date |-> "", time |-> "", utcoffset |-> 0],
   payments |-> None]

\* Form.from_dict
Form_from_dict(data) == DecodeFormFrom(data, 1, BlankEntity("Form"))

\* FormCreated.from_dict keeping the status string as it is, without the
\* conversion to FormStatus.
FormCreated_from_dict_rawStatus(data) ==
  IF "status" \notin DOMAIN data
    THEN DecodeFormFrom(data, 1, BlankEntity("FormCreated"))
    ELSE LET r == DecodeFormFrom([data EXCEPT !["status"] = "BLANK"], 1,
                                 BlankEntity("FormCreated"))
         IN IF r.ok
              THEN Ok([r.value EXCEPT !.status = [str |-> data["status"]]])
              ELSE r

\* FormCreated.from_dict: the keyword arguments of cls(...) in the order they
\* are written, each read by its wire key.
FormCreated_from_dict(data) ==
  IF "id" \notin DOMAIN data THEN Raise(KeyError("id"))
  ELSE IF "name" \notin DOMAIN data THEN Raise(KeyError("name"))
  ELSE IF "workspaceId" \notin DOMAIN data THEN Raise(KeyError("workspaceId"))
  ELSE IF "status" \notin DOMAIN data THEN Raise(KeyError("status"))
  ELSE IF ~FormStatus(data["status"]).ok
    THEN Raise(FormStatus(data["status"]).error)
  ELSE IF "numberOfSubmissions" \notin DOMAIN data
    THEN Raise(KeyError("numberOfSubmissions"))
  ELSE IF "isClosed" \notin DOMAIN data THEN Raise(KeyError("isClosed"))
  ELSE IF "createdAt" \notin DOMAIN data THEN Raise(KeyError("createdAt"))
  ELSE IF ~ParseTimestamp(data["createdAt"]).ok
    THEN Raise(ParseTimestamp(data["createdAt"]).error)
  ELSE IF "updatedAt" \notin DOMAIN data THEN Raise(KeyError("updatedAt"))
  ELSE IF ~ParseTimestamp(data["updatedAt"]).ok
    THEN Raise(ParseTimestamp(data["updatedAt"]).error)
  ELSE IF ~DecodePayments(data).ok THEN Raise(DecodePayments(data).error)
  ELSE Ok([class |-> "FormCreated",
           id |-> data["id"],
           name |-> data["name"],
           workspace_id |-> data["workspaceId"],
           status |-> FormStatus(data["status"]).value,
           number_of_submissions |-> data["numberOfSubmissions"],
           is_closed |-> data["isClosed"],
           created_at |-> ParseTimestamp(data["createdAt"]).value,
           updated_at |-> ParseTimestamp(data["updatedAt"]).value,
           payments |-> DecodePayments(data).value])

\* ------------------------------------------------------- PaginatedForms

\* [Form.from_dict(form) for form in forms]: the decoded items in order; the
\* first item that fails to decode raises, and nothing is returned.
DecodeItems(forms) ==
  LET bad == {i \in 1..Len(forms) : ~Form_from_dict(forms[i]).ok}
  IN IF bad # {}
       THEN Raise(Form_from_dict(forms[Min(bad)]).error)
       ELSE Ok([i \in 1..Len(forms) |-> Form_from_dict(forms[i]).value])

\* data.get("items", [])
GetItems(data) == IF "items" \in DOMAIN data THEN data["items"] ELSE <<>>

\* PaginatedForms.from_dict: items first, then page, limit, total, hasMore.
PaginatedForms_from_dict(data) ==
  LET items == DecodeItems(GetItems(data)) IN
  IF ~items.ok THEN Raise(items.error)
  ELSE IF "page" \notin DOMAIN data THEN Raise(KeyError("page"))
  ELSE IF "limit" \notin DOMAIN data THEN Raise(KeyError("limit"))
  ELSE IF "total" \notin DOMAIN data THEN Raise(KeyError("total"))
  ELSE IF "hasMore" \notin DOMAIN data THEN Raise(KeyError("hasMore"))
  ELSE Ok([items |-> items.value, page |-> data["page"],
           limit |-> data["limit"], total |-> data["total"],
           has_more |-> data["hasMore"]])

\* -------------------------------------------------------------- FormBlock

BlockTypeValues ==
  { "FORM_TITLE", "TEXT", "LABEL", "TITLE", "HEADING_1", "HEADING_2",
    "HEADING_3", "DIVIDER", "PAGE_BREAK", "THANK_YOU_PAGE", "IMAGE",
    "EMBED", "EMBED_VIDEO", "EMBED_AUDIO", "QUESTION", "MATRIX",
    "INPUT_TEXT", "INPUT_NUMBER", "INPUT_EMAIL", "INPUT_LINK",
    "INPUT_PHONE_NUMBER", "INPUT_DATE", "INPUT_TIME", "TEXTAREA",
    "FILE_UPLOAD", "LINEAR_SCALE", "RATING", "HIDDEN_FIELDS",
    "MULTIPLE_CHOICE_OPTION", "CHECKBOX", "DROPDOWN_OPTION",
    "RANKING_OPTION", "MULTI_SELECT_OPTION", "PAYMENT", "SIGNATURE",
    "MATRIX_ROW", "MATRIX_COLUMN", "WALLET_CONNECT", "CONDITIONAL_LOGIC",
    "CALCULATED_FIELDS", "CAPTCHA", "RESPONDENT_COUNTRY" }

\* isinstance(x, BlockType) / isinstance(x, FormStatus): an enum member is
\* [enum |-> class, member |-> value], a plain string is [str |-> s].
IsEnum(x) == "enum" \in DOMAIN x

\* x.value if isinstance(x, <Enum>) else x
ValueOrStr(x) == IF IsEnum(x) THEN x.member ELSE x.str

\* FormBlock.to_dict writing only the payload fields the client knows.
FormBlock_to_dict_whitelist(self) ==
  LET keys == {"uuid", "type", "groupUuid", "groupType"}
                \cup (IF self.payload # None THEN {"payload"} ELSE {})
      known == {"html", "isHidden"}
  IN [k \in keys |->
       CASE k = "uuid" -> self.uuid
         [] k = "type" -> ValueOrStr(self.type)
         [] k = "groupUuid" -> self.group_uuid
         [] k = "groupType" -> ValueOrStr(self.group_type)
         [] k = "payload" ->
              [f \in DOMAIN self.payload.some \cap known |->
                 self.payload.some[f]]]

\* FormBlock.to_dict: the four tags, and payload unless it is None.
FormBlock_to_dict(self) ==
  LET keys == {"uuid", "type", "groupUuid", "groupType"}
                \cup (IF self.payload # None THEN {"payload"} ELSE {})
  IN [k \in keys |->
       CASE k = "uuid" -> self.uuid
         [] k = "type" -> ValueOrStr(self.type)
         [] k = "groupUuid" -> self.group_uuid
         [] k = "groupType" -> ValueOrStr(self.group_type)
         [] k = "payload" -> self.payload.some]

\* ----------------------------------------------------------- FormSettings

\* The attributes in declaration order, each with its wire key, whether
\* to_dict guards it with "is not None", and its default.
SettingsFields ==
  <<
     [attr |-> "language", key |-> "language",
      guarded |-> TRUE, default |-> None],
     [attr |-> "is_closed", key |-> "isClosed",
      guarded |-> FALSE, default |-> Some(FALSE)],
     [attr |-> "close_message_title", key |-> "closeMessageTitle",
      guarded |-> TRUE, default |-> None],
     [attr |-> "close_message_description", key |-> "closeMessageDescription",
      guarded |-> TRUE, default |-> None],
     [attr |-> "close_timezone", key |-> "closeTimezone",
      guarded |-> TRUE, default |-> None],
     [attr |-> "close_date", key |-> "closeDate",
      guarded |-> TRUE, default |-> None],
     [attr |-> "close_time", key |-> "closeTime",
      guarded |-> TRUE, default |-> None],
     [attr |-> "submissions_limit", key |-> "submissionsLimit",
      guarded |-> TRUE, default |-> None],
     [attr |-> "unique_submission_key", key |-> "uniqueSubmissionKey",
      guarded |-> TRUE, default |-> None],
     [attr |-> "redirect_on_completion", key |-> "redirectOnCompletion",
      guarded |-> TRUE, default |-> None],
     [attr |-> "has_self_email_notifications", key |-> "hasSelfEmailNotifications",
      guarded |-> FALSE, default |-> Some(FALSE)],
     [attr |-> "self_email_to", key |-> "selfEmailTo",
      guarded |-> TRUE, default |-> None],
     [attr |-> "self_email_reply_to", key |-> "selfEmailReplyTo",
      guarded |-> TRUE, default |-> None],
     [attr |-> "self_email_subject", key |-> "selfEmailSubject",
      guarded |-> TRUE, default |-> None],
     [attr |-> "self_email_from_name", key |-> "selfEmailFromName",
      guarded |-> TRUE, default |-> None],
     [attr |-> "self_email_body", key |-> "selfEmailBody",
      guarded |-> TRUE, default |-> None],
     [attr |-> "has_respondent_email_notifications", key |-> "hasRespondentEmailNotifications",
      guarded |-> FALSE, default |-> Some(FALSE)],
     [attr |-> "respondent_email_to", key |-> "respondentEmailTo",
      guarded |-> TRUE, default |-> None],
     [attr |-> "respondent_email_reply_to", key |-> "respondentEmailReplyTo",
      guarded |-> TRUE, default |-> None],
     [attr |-> "respondent_email_subject", key |-> "respondentEmailSubject",
      guarded |-> TRUE, default |-> None],
     [attr |-> "respondent_email_from_name", key |-> "respondentEmailFromName",
      guarded |-> TRUE, default |-> None],
     [attr |-> "respondent_email_body", key |-> "respondentEmailBody",
      guarded |-> TRUE, default |-> None],
     [attr |-> "has_progress_bar", key |-> "hasProgressBar",
      guarded |-> FALSE, default |-> Some(FALSE)],
     [attr |-> "has_partial_submissions", key |-> "hasPartialSubmissions",
      guarded |-> FALSE, default |-> Some(FALSE)],
     [attr |-> "page_auto_jump", key |-> "pageAutoJump",
      guarded |-> FALSE, default |-> Some(FALSE)],
     [attr |-> "save_for_later", key |-> "saveForLater",
      guarded |-> FALSE, default |-> Some(TRUE)],
     [attr |-> "styles", key |-> "styles",
      guarded |-> TRUE, default |-> None],
     [attr |-> "password", key |-> "password",
      guarded |-> TRUE, default |-> None],
     [attr |-> "submissions_data_retention_duration", key |-> "submissionsDataRetentionDuration",
      guarded |-> TRUE, default |-> None],
     [attr |-> "submissions_data_retention_unit", key |-> "submissionsDataRetentionUnit",
      guarded |-> TRUE, default |-> None] >>

SettingsAttrs == {SettingsFields[i].attr : i \in 1..Len(SettingsFields)}

FieldOfAttr(a) ==
  SettingsFields[CHOOSE i \in 1..Len(SettingsFields) : SettingsFields[i].attr = a]

FieldOfKey(k) ==
  SettingsFields[CHOOSE i \in 1..Len(SettingsFields) : SettingsFields[i].key = k]

\* FormSettings(**kwargs): the attributes given, the others at their default.
\* An attribute holds None or Some(value).
FormSettings(kwargs) ==
  [cls |-> "FormSettings",
   attrs |-> [a \in SettingsAttrs |->
               IF a \in DOMAIN kwargs THEN kwargs[a] ELSE FieldOfAttr(a).default]]

\* FormSettings.to_dict: a guarded attribute is written unless it is None,
\* the others are always written.
FormSettings_to_dict(self) ==
  LET keys == { SettingsFields[i].key :
                  i \in { j \in 1..Len(SettingsFields) :
                            \/ ~SettingsFields[j].guarded
                            \/ self.attrs[SettingsFields[j].attr] # None } }
  IN [k \in keys |-> self.attrs[FieldOfKey(k).attr]]

\* ------------------------------------------------------------ wire data

WireA ==
  [id |-> "a", name |-> "A", workspaceId |-> "ws1", status |-> "DRAFT",
   numberOfSubmissions |-> 0, isClosed |-> FALSE,
   createdAt |-> "2024-01-01T00:00:00Z",
   updatedAt |-> "2024-01-02T08:30:00Z"]

WireB ==
  [id |-> "b", name |-> "B", workspaceId |-> "ws1", status |-> "PUBLISHED",
   numberOfSubmissions |-> 3, isClosed |-> TRUE,
   createdAt |-> "2024-01-01T00:00:00+00:00",
   updatedAt |-> "2024-01-02T09:30:00+01:00"]

WireC ==
  [id |-> "c", name |-> "C", workspaceId |-> "ws2", status |-> "BLANK",
   numberOfSubmissions |-> 0, isClosed |-> FALSE,
   createdAt |-> "2024-01-01T00:00:00Z",
   updatedAt |-> "2024-01-01T00:00:00Z"]

\* A form whose status is outside the enumeration.
WireArchived == [WireA EXCEPT !.id = "x", !.status = "ARCHIVED"]

\* The limit the mock server reports in its envelopes: a page of EnvLimit
\* items is a full-size page.
EnvLimit == Len(<< WireA, WireB >>)

Envelope(items, p, total, more) ==
  [items |-> items, page |-> p, limit |-> EnvLimit, total |-> total,
   hasMore |-> more]

Json(data) == [json |-> data]

Fails(e) == [raise |-> e]

ServerError == [type |-> "TallyAPIError", arg |-> "500"]

NotFoundError == [type |-> "NotFoundError", arg |-> "404"]

UnauthorizedError == [type |-> "UnauthorizedError", arg |-> "401"]

BadRequestError == [type |-> "BadRequestError", arg |-> "400"]

\* What the mock server may answer for one page of GET /forms.  The page and
\* total an envelope reports need not agree with the items it carries.
PageReplies ==
  { Json(Envelope(<<WireA, WireB>>, 1, 5, TRUE)),
    Json(Envelope(<<WireA, WireB>>, 1, 2, FALSE)),
    Json(Envelope(<<WireC>>, 7, 5, TRUE)),
    Json(Envelope(<<WireC>>, 1, 0, FALSE)),
    Json(Envelope(<<>>, 2, 9, TRUE)),
    Json(Envelope(<<>>, 1, 0, FALSE)),
    Fails(ServerError),
    Json([items |-> <<WireC>>, page |-> 1, limit |-> EnvLimit, total |-> 1]),
    Json(Envelope(<<WireA, WireArchived>>, 1, 5, TRUE)) }

\* ------------------------------------------------------------------ state

Walks == {"w1", "w2"}

VARIABLES
  serverPages,  \* the request executor's answer to GET /forms, per page
  pc,           \* per walk: where the generator of __iter__ stands
  page,         \* per walk: the local variable page
  result,       \* per walk: the local variable result (a PaginatedForms)
  idx,          \* per walk: the position of the for loop in result.items
  yielded,      \* per walk: the forms handed to the consumer, in order
  requests,     \* per walk: the executor calls the walk has issued, in order
  error,        \* per walk: the exception that ended the walk, if any
  backend,      \* the executor's answers to GET /forms/{id} and POST /forms
  last          \* the last direct call: its arguments, requests and outcome

vars ==
  << serverPages, pc, page, result, idx, yielded, requests, error, backend,
     last >>

\* A local variable that has not been assigned.
Unset == [unset |-> TRUE]

\* No direct call has been made.
NoCall == [op |-> "none"]

\* An executor that is asked for no single form and no creation.
NoBackend == [form |-> <<>>, post |-> Fails(ServerError)]

NoError == [type |-> "none", arg |-> "none"]

\* ----------------------------------------------------- request executor

\* TallyClient.request for GET /forms: the scripted answer for the page.
request_forms(params) ==
  IF params["page"] \in DOMAIN serverPages
    THEN serverPages[params["page"]]
    ELSE Fails(BadRequestError)

\* --------------------------------------------------------- FormsResource

DefaultLimit == 50

MaxLimit == 500

\* all_params with limit clamped to the documented maximum.
all_params_clamped(p, limit, workspace_ids) ==
  LET l == IF limit > MaxLimit THEN MaxLimit ELSE limit IN
  IF workspace_ids # None
    THEN [page |-> p, limit |-> l, workspaceIds |-> workspace_ids.some]
    ELSE [page |-> p, limit |-> l]

\* The query of all(): page and limit, and workspaceIds unless it is None.
all_params(p, limit, workspace_ids) ==
  IF workspace_ids # None
    THEN [page |-> p, limit |-> limit, workspaceIds |-> workspace_ids.some]
    ELSE [page |-> p, limit |-> limit]

\* FormsResource.all: one GET /forms, decoded as a PaginatedForms.  The
\* value is the requests issued and what the call returns or raises.
\* workspace_ids is Some(a sequence of ids) or None.
all(p, limit, workspace_ids) ==
  LET params == all_params(p, limit, workspace_ids)
      req == [method |-> "GET", path |-> << "forms" >>, params |-> params]
      data == request_forms(params)
  IN [requests |-> << req >>,
      result |-> IF "raise" \in DOMAIN data
                   THEN Raise(data.raise)
                   ELSE PaginatedForms_from_dict(data.json)]

\* TallyClient.request for GET /forms/{form_id}: the scripted answer for the
\* id, NotFoundError for an id the server does not hold.
request_form(form_id) ==
  IF form_id \in DOMAIN backend.form
    THEN backend.form[form_id]
    ELSE Fails(NotFoundError)

\* TallyClient.request for POST /forms: the scripted answer.
request_create(body) == backend.post

\* FormDetails.from_dict: the form's keys, decoded as they are for a Form.
FormDetails_from_dict(data) ==
  DecodeFormFrom(data, 1, BlankEntity("FormDetails"))

\* get wrapping every failure in the generic error.
get_generic(form_id) ==
  LET req == [method |-> "GET", path |-> << "forms", form_id >>]
      data == request_form(form_id)
  IN [requests |-> << req >>,
      result |-> IF "raise" \in DOMAIN data
                   THEN Raise(ServerError)
                   ELSE FormDetails_from_dict(data.json)]

\* FormsResource.get: one GET /forms/{form_id}, decoded as a FormDetails.
get(form_id) ==
  LET req == [method |-> "GET", path |-> << "forms", form_id >>]
      data == request_form(form_id)
  IN [requests |-> << req >>,
      result |-> IF "raise" \in DOMAIN data
                   THEN Raise(data.raise)
                   ELSE FormDetails_from_dict(data.json)]

\* The body of create(): status and blocks, and workspaceId, templateId and
\* settings unless they are None.  A block or the settings that is a plain
\* dict, [dict |-> d], goes into the body as it is.
create_body(status, blocks, workspace_id, template_id, settings) ==
  LET keys == {"status", "blocks"}
                \cup (IF workspace_id # None THEN {"workspaceId"} ELSE {})
                \cup (IF template_id # None THEN {"templateId"} ELSE {})
                \cup (IF settings # None THEN {"settings"} ELSE {})
  IN [k \in keys |->
       CASE k = "status" -> ValueOrStr(status)
         [] k = "blocks" ->
              [i \in 1..Len(blocks) |->
                 IF "cls" \in DOMAIN blocks[i]
                   THEN FormBlock_to_dict(blocks[i])
                   ELSE blocks[i].dict]
         [] k = "workspaceId" -> workspace_id.some
         [] k = "templateId" -> template_id.some
         [] k = "settings" ->
              IF "cls" \in DOMAIN settings
                THEN FormSettings_to_dict(settings)
                ELSE settings.dict]

\* FormsResource.create: one POST /forms, decoded as a FormCreated.
create(status, blocks, workspace_id, template_id, settings) ==
  LET body == create_body(status, blocks, workspace_id, template_id, settings)
      req == [method |-> "POST", path |-> << "forms" >>, json |-> body]
      data == request_create(body)
  IN [requests |-> << req >>,
      result |-> IF "raise" \in DOMAIN data
                   THEN Raise(data.raise)
                   ELSE FormCreated_from_dict(data.json)]

\* ------------------------------------------------- FormsResource.__iter__

\* The consumer's first next(): the generator starts, page = 1.
Start(w) ==
  /\ pc[w] = "new"
  /\ page' = [page EXCEPT ![w] = 1]
  /\ pc' = [pc EXCEPT ![w] = "fetch"]
  /\ UNCHANGED << serverPages, backend, last, result, idx, yielded, requests, error >>

\* Fetch with read-ahead: a page that has more is followed at once by the
\* request for the next page.
FetchAhead(w) ==
  /\ pc[w] = "fetch"
  /\ page[w] <= MaxPages
  /\ LET r == all(page[w], DefaultLimit, None)
         ahead == all(page[w] + 1, DefaultLimit, None) IN
       /\ requests' =
            [requests EXCEPT ![w] =
               IF r.result.ok /\ r.result.value.has_more
                 THEN @ \o r.requests \o ahead.requests
                 ELSE @ \o r.requests]
       /\ IF r.result.ok
            THEN /\ result' = [result EXCEPT ![w] = r.result.value]
                 /\ idx' = [idx EXCEPT ![w] = 1]
                 /\ pc' = [pc EXCEPT ![w] = "loop"]
                 /\ error' = error
            ELSE /\ pc' = [pc EXCEPT ![w] = "failed"]
                 /\ error' = [error EXCEPT ![w] = r.result.error]
                 /\ UNCHANGED << result, idx >>
  /\ UNCHANGED << serverPages, backend, last, page, yielded >>

\* Fetch with one retry: a failed request is issued a second time.
FetchRetry(w) ==
  /\ pc[w] = "fetch"
  /\ page[w] <= MaxPages
  /\ LET r == all(page[w], DefaultLimit, None) IN
       /\ requests' =
            [requests EXCEPT ![w] =
               IF r.result.ok THEN @ \o r.requests
                              ELSE @ \o r.requests \o r.requests]
       /\ IF r.result.ok
            THEN /\ result' = [result EXCEPT ![w] = r.result.value]
                 /\ idx' = [idx EXCEPT ![w] = 1]
                 /\ pc' = [pc EXCEPT ![w] = "loop"]
                 /\ error' = error
            ELSE /\ pc' = [pc EXCEPT ![w] = "failed"]
                 /\ error' = [error EXCEPT ![w] = r.result.error]
                 /\ UNCHANGED << result, idx >>
  /\ UNCHANGED << serverPages, backend, last, page, yielded >>

\* result = self.all(page=page): an exception leaves the generator finished.
Fetch(w) ==
  /\ pc[w] = "fetch"
  /\ page[w] <= MaxPages
  /\ LET r == all(page[w], DefaultLimit, None) IN
       /\ requests' = [requests EXCEPT ![w] = @ \o r.requests]
       /\ IF r.result.ok
            THEN /\ result' = [result EXCEPT ![w] = r.result.value]
                 /\ idx' = [idx EXCEPT ![w] = 1]
                 /\ pc' = [pc EXCEPT ![w] = "loop"]
                 /\ error' = error
            ELSE /\ pc' = [pc EXCEPT ![w] = "failed"]
                 /\ error' = [error EXCEPT ![w] = r.result.error]
                 /\ UNCHANGED << result, idx >>
  /\ UNCHANGED << serverPages, backend, last, page, yielded >>

\* for form in result.items: yield form.  The generator is suspended with
\* the form handed to the consumer.
Yield(w) ==
  /\ pc[w] = "loop"
  /\ idx[w] <= Len(result[w].items)
  /\ yielded' = [yielded EXCEPT ![w] = Append(@, result[w].items[idx[w]])]
  /\ pc' = [pc EXCEPT ![w] = "suspended"]
  /\ UNCHANGED << serverPages, backend, last, page, result, idx, requests, error >>

\* The consumer's next() on a suspended generator: the for loop goes on.
Resume(w) ==
  /\ pc[w] = "suspended"
  /\ idx' = [idx EXCEPT ![w] = @ + 1]
  /\ pc' = [pc EXCEPT ![w] = "loop"]
  /\ UNCHANGED << serverPages, backend, last, page, result, yielded, requests, error >>

\* PageEnd stepping the page counter by two.
PageEndSkip(w) ==
  /\ pc[w] = "loop"
  /\ idx[w] > Len(result[w].items)
  /\ IF ~result[w].has_more
       THEN /\ pc' = [pc EXCEPT ![w] = "done"]
            /\ page' = page
       ELSE /\ page' = [page EXCEPT ![w] = @ + 2]
            /\ pc' = [pc EXCEPT ![w] = "fetch"]
  /\ UNCHANGED << serverPages, backend, last, result, idx, yielded, requests, error >>

\* PageEnd inferring continuation from the page's length: a page shorter
\* than limit ends the walk.
PageEndByLength(w) ==
  /\ pc[w] = "loop"
  /\ idx[w] > Len(result[w].items)
  /\ IF Len(result[w].items) < result[w].limit
       THEN /\ pc' = [pc EXCEPT ![w] = "done"]
            /\ page' = page
       ELSE /\ page' = [page EXCEPT ![w] = @ + 1]
            /\ pc' = [pc EXCEPT ![w] = "fetch"]
  /\ UNCHANGED << serverPages, backend, last, result, idx, yielded, requests, error >>

\* PageEnd that ends the walk only at an empty page.
PageEndUntilEmpty(w) ==
  /\ pc[w] = "loop"
  /\ idx[w] > Len(result[w].items)
  /\ IF result[w].items = <<>>
       THEN /\ pc' = [pc EXCEPT ![w] = "done"]
            /\ page' = page
       ELSE /\ page' = [page EXCEPT ![w] = @ + 1]
            /\ pc' = [pc EXCEPT ![w] = "fetch"]
  /\ UNCHANGED << serverPages, backend, last, result, idx, yielded, requests, error >>

\* PageEnd with the page counter kept on the resource, shared by the walks.
PageEndShared(w) ==
  /\ pc[w] = "loop"
  /\ idx[w] > Len(result[w].items)
  /\ IF ~result[w].has_more
       THEN /\ pc' = [pc EXCEPT ![w] = "done"]
            /\ page' = page
       ELSE /\ page' = [v \in Walks |-> page[v] + 1]
            /\ pc' = [pc EXCEPT ![w] = "fetch"]
  /\ UNCHANGED << serverPages, backend, last, result, idx, yielded, requests, error >>

\* The for loop is over: if not result.has_more: break; page += 1.
PageEnd(w) ==
  /\ pc[w] = "loop"
  /\ idx[w] > Len(result[w].items)
  /\ IF ~result[w].has_more
       THEN /\ pc' = [pc EXCEPT ![w] = "done"]
            /\ page' = page
       ELSE /\ page' = [page EXCEPT ![w] = @ + 1]
            /\ pc' = [pc EXCEPT ![w] = "fetch"]
  /\ UNCHANGED << serverPages, backend, last, result, idx, yielded, requests, error >>

\* next() on a finished generator raises StopIteration and changes nothing.
Exhausted(w) ==
  /\ pc[w] \in {"done", "failed"}
  /\ UNCHANGED vars

\* No generator has been started and no call has been made.
Idle ==
  /\ pc = [w \in Walks |-> "new"]
  /\ page = [w \in Walks |-> 0]
  /\ result = [w \in Walks |-> Unset]
  /\ idx = [w \in Walks |-> 0]
  /\ yielded = [w \in Walks |-> <<>>]
  /\ requests = [w \in Walks |-> <<>>]
  /\ error = [w \in Walks |-> NoError]
  /\ last = NoCall

Init ==
  /\ serverPages \in [1..MaxPages -> PageReplies]
  /\ backend = NoBackend
  /\ Idle

Next ==
  \E w \in Walks :
    \/ Start(w)
    \/ Fetch(w)
    \/ Yield(w)
    \/ Resume(w)
    \/ PageEnd(w)
    \/ Exhausted(w)

Spec == Init /\ [][Next]_vars

\* The consumer keeps consuming and a running generator keeps running.
Step(w) ==
  Start(w) \/ Fetch(w) \/ Yield(w) \/ Resume(w) \/ PageEnd(w) \/ Exhausted(w)

\* The walks against the servers that answer every page with one of
\* LiveReplies, with the consumers and the generators scheduled fairly.
LiveReplies ==
  { Json(Envelope(<<WireC>>, 7, 5, TRUE)),
    Json(Envelope(<<WireA, WireB>>, 1, 2, FALSE)),
    Json(Envelope(<<>>, 2, 9, TRUE)) }

LiveInit == Init /\ \A k \in 1..MaxPages : serverPages[k] \in LiveReplies

FairSpec == LiveInit /\ [][Next]_vars /\ \A w \in Walks : WF_vars(Step(w))

\* ------------------------------------------------- direct calls: all, get, create

\* Arguments of all(): page and limit inside and outside their documented
\* ranges, no filter, an empty filter, and filters whose order matters.
PageArgs == {-1, 0, 1, 2, 1000}

LimitArgs == {0, 50, 500, 501}

WorkspaceIdsArgs ==
  { None, Some(<<>>), Some(<< "ws1" >>), Some(<< "ws2", "ws1" >>) }

FormIdArgs == {"f1", "missing-id"}

StatusArgs ==
  { [enum |-> "FormStatus", member |-> "DRAFT"],
    [str |-> "PUBLISHED"],
    [str |-> "SOMEDAY"] }

TypeArgs ==
  { [enum |-> "BlockType", member |-> "FORM_TITLE"],
    [enum |-> "BlockType", member |-> "INPUT_TEXT"],
    [str |-> "SOME_FUTURE_TYPE"] }

PayloadArgs ==
  { None,
    Some([html |-> "<h1>My Form</h1>"]),
    Some([isHidden |-> TRUE, futureKey |-> "x"]) }

BlockArgs ==
  { [cls |-> "FormBlock", uuid |-> "u1", type |-> t, group_uuid |-> g,
     group_type |-> gt, payload |-> pl] :
      t \in TypeArgs, g \in {"u1", "g1"}, gt \in TypeArgs, pl \in PayloadArgs }

Block(t, pl) ==
  [cls |-> "FormBlock", uuid |-> "u1", type |-> t, group_uuid |-> "u1",
   group_type |-> t, payload |-> pl]

\* A block given as a plain dict.
BlockDict ==
  [dict |-> [uuid |-> "u2", type |-> "TEXT", groupUuid |-> "u2",
             groupType |-> "TEXT", payload |-> [html |-> "hi"]]]

BlockListArgs ==
  { <<>>,
    << Block([enum |-> "BlockType", member |-> "FORM_TITLE"],
             Some([html |-> "<h1>My Form</h1>"])) >>,
    << BlockDict, Block([str |-> "SOME_FUTURE_TYPE"], None) >>,
    << Block([enum |-> "BlockType", member |-> "INPUT_TEXT"], None),
       Block([enum |-> "BlockType", member |-> "FORM_TITLE"],
             Some([isHidden |-> TRUE, futureKey |-> "x"])) >> }

OptionalIdArgs == { None, Some("id1") }

SettingsArgs ==
  { None,
    FormSettings(<<>>),
    FormSettings([language |-> Some("en"), save_for_later |-> Some(FALSE)]),
    [dict |-> [isClosed |-> FALSE, saveForLater |-> TRUE]] }

GetReplies ==
  { Json(WireA), Json(WireArchived),
    Json([k \in DOMAIN WireB \ {"name"} |-> WireB[k]]),
    Fails(UnauthorizedError), Fails(ServerError) }

PostReplies == { Json(WireC), Json(WireArchived), Fails(BadRequestError) }

CallAll(p, limit, workspace_ids) ==
  /\ last = NoCall
  /\ LET r == all(p, limit, workspace_ids) IN
       last' = [op |-> "all",
                args |-> [page |-> p, limit |-> limit,
                          workspace_ids |-> workspace_ids],
                requests |-> r.requests, result |-> r.result]
  /\ UNCHANGED << serverPages, backend, pc, page, result, idx, yielded,
                  requests, error >>

CallGet(form_id) ==
  /\ last = NoCall
  /\ LET r == get(form_id) IN
       last' = [op |-> "get", args |-> [form_id |-> form_id],
                requests |-> r.requests, result |-> r.result]
  /\ UNCHANGED << serverPages, backend, pc, page, result, idx, yielded,
                  requests, error >>

CallCreate(status, blocks, workspace_id, template_id, settings) ==
  /\ last = NoCall
  /\ LET r == create(status, blocks, workspace_id, template_id, settings) IN
       last' = [op |-> "create",
                args |-> [status |-> status, blocks |-> blocks,
                          workspace_id |-> workspace_id,
                          template_id |-> template_id, settings |-> settings],
                requests |-> r.requests, result |-> r.result]
  /\ UNCHANGED << serverPages, backend, pc, page, result, idx, yielded,
                  requests, error >>

\* The caller has its result; the resource keeps nothing of the call.
Return ==
  /\ last # NoCall
  /\ last' = NoCall
  /\ UNCHANGED << serverPages, backend, pc, page, result, idx, yielded,
                  requests, error >>

CallInit ==
  /\ serverPages \in [{1} -> PageReplies]
  /\ backend \in [form : [{"f1"} -> GetReplies], post : PostReplies]
  /\ Idle

CallNext ==
  \/ \E p \in PageArgs, l \in LimitArgs, ws \in WorkspaceIdsArgs :
       CallAll(p, l, ws)
  \/ \E id \in FormIdArgs : CallGet(id)
  \/ \E st \in StatusArgs, bl \in BlockListArgs, ws \in OptionalIdArgs,
        tp \in OptionalIdArgs, se \in SettingsArgs :
       CallCreate(st, bl, ws, tp, se)
  \/ Return

CallSpec == CallInit /\ [][CallNext]_vars

\* ---------------------------------------------------------------- encoding

\* A caller sets at most MaxKwargs settings.
MaxKwargs == 2

RECURSIVE AttrSetsUpTo(_)
AttrSetsUpTo(n) ==
  IF n = 0 THEN {{}}
  ELSE LET prev == AttrSetsUpTo(n - 1)
       IN prev \cup {S \cup {a} : S \in prev, a \in SettingsAttrs}

IntAttrs == {"submissions_limit", "submissions_data_retention_duration"}

\* A value a caller may give the attribute: for a flag the opposite of its
\* default, a number for the two counts, a string otherwise.
ExampleValue(a) ==
  IF ~FieldOfAttr(a).guarded THEN Some(~FieldOfAttr(a).default.some)
  ELSE IF a \in IntAttrs THEN Some(30)
  ELSE Some("x")

KwargsArgs ==
  { [a \in S |-> ExampleValue(a)] : S \in AttrSetsUpTo(MaxKwargs) }

EncodeSettings(kwargs) ==
  /\ last = NoCall
  /\ last' = [op |-> "FormSettings.to_dict", args |-> kwargs,
              result |-> FormSettings_to_dict(FormSettings(kwargs))]
  /\ UNCHANGED << serverPages, backend, pc, page, result, idx, yielded,
                  requests, error >>

EncodeBlock(block) ==
  /\ last = NoCall
  /\ last' = [op |-> "FormBlock.to_dict", args |-> block,
              result |-> FormBlock_to_dict(block)]
  /\ UNCHANGED << serverPages, backend, pc, page, result, idx, yielded,
                  requests, error >>

EncodeInit ==
  /\ serverPages = [k \in {1} |-> Fails(ServerError)]
  /\ backend = [form |-> <<>>, post |-> Json(WireC)]
  /\ Idle

EncodeNext ==
  \/ \E kwargs \in KwargsArgs : EncodeSettings(kwargs)
  \/ \E block \in BlockArgs : EncodeBlock(block)
  \/ \E st \in StatusArgs, bl \in BlockListArgs, ws \in OptionalIdArgs,
        tp \in OptionalIdArgs, se \in SettingsArgs :
       CallCreate(st, bl, ws, tp, se)
  \/ Return

EncodeSpec == EncodeInit /\ [][EncodeNext]_vars

\* ---------------------------------------------------------------- decoding

StatusInputs ==
  FormStatusValues \cup {"ARCHIVED", "draft", "Published", "UNKNOWN"}

\* A wire object without one key.
Without(data, key) == [k \in DOMAIN data \ {key} |-> data[k]]

WirePaymentUSD == [amount |-> 10, currency |-> "USD"]

WirePaymentEUR == [amount |-> 1999, currency |-> "EUR"]

\* What a form may carry under payments: null, no element, one element, two
\* elements in either order, and a list whose second element lacks its
\* currency.
PaymentsInputs ==
  { None,
    [list |-> <<>>],
    [list |-> << WirePaymentUSD >>],
    [list |-> << WirePaymentUSD, WirePaymentEUR >>],
    [list |-> << WirePaymentEUR, WirePaymentUSD >>],
    [list |-> << WirePaymentUSD, [amount |-> 5] >>] }

\* A wire object with a payments key.
WithPayments(data, p) ==
  [k \in DOMAIN data \cup {"payments"} |->
     IF k = "payments" THEN p ELSE data[k]]

\* Form objects on the wire: every status, recognised or not, with every
\* key present or with one required key missing, without a payments key;
\* and forms with a payments key of every kind.
WireForms ==
  LET withStatus == { [w EXCEPT !.status = st] :
                        w \in {WireA, WireB, WireC}, st \in StatusInputs }
  IN withStatus
       \cup { Without(w, FormKeys[i]) :
                w \in withStatus, i \in 1..Len(FormKeys) }
       \cup { WithPayments(w, p) :
                w \in {WireA, WireB, WireArchived,
                       Without(WireC, "updatedAt")},
                p \in PaymentsInputs }

\* The keys of a paginated envelope in the order the constructor call reads
\* them.
EnvelopeKeys == << "items", "page", "limit", "total", "hasMore" >>

\* Paginated envelopes on the wire: the server's answers, and each of them
\* without one of the envelope's keys.
WireEnvelopes ==
  LET sent == { r.json : r \in { q \in PageReplies : "json" \in DOMAIN q } }
  IN sent \cup { Without(e, EnvelopeKeys[i]) :
                   e \in sent, i \in 1..Len(EnvelopeKeys) }

DecodeForm(data) ==
  /\ last = NoCall
  /\ last' = [op |-> "Form.from_dict", args |-> data,
              result |-> Form_from_dict(data)]
  /\ UNCHANGED << serverPages, backend, pc, page, result, idx, yielded,
                  requests, error >>

DecodeCreated(data) ==
  /\ last = NoCall
  /\ last' = [op |-> "FormCreated.from_dict", args |-> data,
              result |-> FormCreated_from_dict(data)]
  /\ UNCHANGED << serverPages, backend, pc, page, result, idx, yielded,
                  requests, error >>

DecodePage(data) ==
  /\ last = NoCall
  /\ last' = [op |-> "PaginatedForms.from_dict", args |-> data,
              result |-> PaginatedForms_from_dict(data)]
  /\ UNCHANGED << serverPages, backend, pc, page, result, idx, yielded,
                  requests, error >>

\* No walk is started; the executor answers a creation with one of
\* PostReplies.
DecodeInit ==
  /\ serverPages = [k \in {1} |-> Fails(ServerError)]
  /\ backend \in [form : {<<>>}, post : PostReplies]
  /\ Idle

DecodeNext ==
  \/ \E data \in WireForms : DecodeForm(data)
  \/ \E data \in WireForms : DecodeCreated(data)
  \/ \E data \in WireEnvelopes : DecodePage(data)
  \/ \E st \in StatusArgs, bl \in BlockListArgs, ws \in OptionalIdArgs,
        tp \in OptionalIdArgs, se \in SettingsArgs :
       CallCreate(st, bl, ws, tp, se)
  \/ Return

DecodeSpec == DecodeInit /\ [][DecodeNext]_vars

\* -------------------------------------------------------------- round trips

AmountArgs == {0, 10, 1999}

CurrencyArgs == {"USD", "EUR"}

\* FormPayment(amount, currency)
PaymentArgs ==
  { [cls |-> "FormPayment", amount |-> a, currency |-> c] :
      a \in AmountArgs, c \in CurrencyArgs }

\* A type tag read from the wire: the catalogue member whose value is the
\* string, by exact match, or the string itself.
DecodeTag(s) ==
  IF s \in BlockTypeValues THEN [enum |-> "BlockType", member |-> s]
                            ELSE [str |-> s]

\* The decode of one block of a form's details: the four tags by their wire
\* keys, and the payload object as it is, or None when the key is absent.
FormBlock_from_dict(data) ==
  LET missing == { i \in 1..4 :
                     << "uuid", "type", "groupUuid", "groupType" >>[i]
                       \notin DOMAIN data }
  IN IF missing # {}
       THEN Raise(KeyError(<< "uuid", "type", "groupUuid", "groupType" >>
                             [Min(missing)]))
       ELSE Ok([cls |-> "FormBlock", uuid |-> data["uuid"],
                type |-> DecodeTag(data["type"]),
                group_uuid |-> data["groupUuid"],
                group_type |-> DecodeTag(data["groupType"]),
                payload |-> IF "payload" \in DOMAIN data
                              THEN Some(data["payload"]) ELSE None])

\* The decode of the settings of a form's details: each attribute from its
\* wire key, None for a key that is absent.
FormSettings_from_dict(data) ==
  Ok([cls |-> "FormSettings",
      attrs |-> [a \in SettingsAttrs |->
                  IF FieldOfAttr(a).key \in DOMAIN data
                    THEN data[FieldOfAttr(a).key] ELSE None]])

\* FormPayment.from_dict(p.to_dict())
RoundTripPayment(p) ==
  /\ last = NoCall
  /\ last' = [op |-> "FormPayment.round_trip", args |-> p,
              wire |-> FormPayment_to_dict(p),
              result |-> FormPayment_from_dict(FormPayment_to_dict(p))]
  /\ UNCHANGED << serverPages, backend, pc, page, result, idx, yielded,
                  requests, error >>

\* A block encoded with to_dict and decoded again.
RoundTripBlock(block) ==
  /\ last = NoCall
  /\ last' = [op |-> "FormBlock.round_trip", args |-> block,
              wire |-> FormBlock_to_dict(block),
              result |-> FormBlock_from_dict(FormBlock_to_dict(block))]
  /\ UNCHANGED << serverPages, backend, pc, page, result, idx, yielded,
                  requests, error >>

\* FormSettings(**kwargs) encoded with to_dict and decoded again.
RoundTripSettings(kwargs) ==
  /\ last = NoCall
  /\ last' = [op |-> "FormSettings.round_trip", args |-> kwargs,
              wire |-> FormSettings_to_dict(FormSettings(kwargs)),
              result |-> FormSettings_from_dict(
                           FormSettings_to_dict(FormSettings(kwargs)))]
  /\ UNCHANGED << serverPages, backend, pc, page, result, idx, yielded,
                  requests, error >>

RoundTripInit == EncodeInit

RoundTripNext ==
  \/ \E p \in PaymentArgs : RoundTripPayment(p)
  \/ \E block \in BlockArgs : RoundTripBlock(block)
  \/ \E kwargs \in KwargsArgs : RoundTripSettings(kwargs)
  \/ Return

RoundTripSpec == RoundTripInit /\ [][RoundTripNext]_vars

\* ------------------------------------------- what the server has scripted

\* For each answer the server may give: whether it is an envelope that
\* decodes (all four envelope keys and only decodable items), and its forms.
ReplyFacts ==
  [r \in PageReplies |->
    IF "json" \notin DOMAIN r THEN [ok |-> FALSE, items |-> <<>>]
    ELSE LET ws == GetItems(r.json)
             ok == /\ {"page", "limit", "total", "hasMore"} \subseteq DOMAIN r.json
                   /\ \A i \in 1..Len(ws) : Form_from_dict(ws[i]).ok
         IN [ok |-> ok,
             items |-> IF ok THEN [i \in 1..Len(ws) |-> Form_from_dict(ws[i]).value]
                             ELSE <<>>]]

WirePageOk(k) == ReplyFacts[serverPages[k]].ok

WireHasMore(k) == serverPages[k].json["hasMore"]

\* The forms of page k, I_k.
PageItems(k) == ReplyFacts[serverPages[k]].items

\* I_1 \o ... \o I_n
Flatten(n) == Concat([k \in 1..n |-> PageItems(k)])

\* Pages 1..n answer with hasMore true on 1..n-1 and false on n.
EndsAt(n) ==
  /\ n \in 1..MaxPages
  /\ \A k \in 1..n : WirePageOk(k) /\ (WireHasMore(k) <=> k < n)

\* Page n's fetch fails, and pages 1..n-1 lead to it.
FailsAt(n) ==
  /\ n \in 1..MaxPages
  /\ ~WirePageOk(n)
  /\ \A k \in 1..(n - 1) : WirePageOk(k) /\ WireHasMore(k)

PagesAsked(w) == [i \in 1..Len(requests[w]) |-> requests[w][i].params["page"]]

UpTo(n) == [i \in 1..n |-> i]

WalkState(w) ==
  << pc[w], page[w], result[w], idx[w], yielded[w], requests[w], error[w] >>

\* ---------------------------------------------------------------- claims

\* C1: against a server whose pages 1..N carry hasMore true on 1..N-1 and
\* false on N, a walk asks for page k with its k-th call, never asks for
\* page N+1, yields a prefix of I_1 \o ... \o I_N, and once done has yielded
\* exactly that concatenation with exactly N calls of GET /forms.
C1_Flattening ==
  \A w \in Walks : \A n \in 1..MaxPages :
    EndsAt(n) =>
      /\ IsPrefix(PagesAsked(w), UpTo(n))
      /\ IsPrefix(yielded[w], Flatten(n))
      /\ \A i \in 1..Len(requests[w]) :
           requests[w][i].method = "GET" /\ requests[w][i].path = << "forms" >>
      /\ pc[w] = "done" =>
           /\ yielded[w] = Flatten(n)
           /\ PagesAsked(w) = UpTo(n)

\* The spec's example: pages [a, b] (more) and [c] (no more), walked to the
\* end.
C1_Witness ==
  \E w \in Walks :
    /\ EndsAt(2)
    /\ Len(PageItems(1)) = 2 /\ Len(PageItems(2)) = 1
    /\ pc[w] = "done"
    /\ Len(yielded[w]) = 3

\* C2: a walk that has not been asked for an item has requested nothing;
\* a walk whose last request is for page n has handed out every item of pages
\* 1..n-1 and of page n only the items up to the loop's position, so the
\* request for page n was issued with all of pages 1..n-1 received and no
\* page beyond n has been requested.
C2_Laziness ==
  \A w \in Walks :
    /\ pc[w] = "new" => requests[w] = <<>> /\ yielded[w] = <<>>
    /\ LET n == Len(requests[w]) IN
         n >= 1 =>
           /\ PagesAsked(w) = UpTo(n)
           /\ \A k \in 1..(n - 1) : WirePageOk(k)
           /\ IF pc[w] \in {"loop", "suspended"}
                THEN /\ WirePageOk(n)
                     /\ LET got == IF pc[w] = "suspended" THEN idx[w]
                                                          ELSE idx[w] - 1
                        IN /\ got \in 0..Len(PageItems(n))
                           /\ yielded[w] =
                                Flatten(n - 1) \o SubSeq(PageItems(n), 1, got)
                ELSE \/ yielded[w] = Flatten(n - 1) /\ pc[w] = "failed"
                     \/ WirePageOk(n) /\ yielded[w] = Flatten(n)
                          /\ pc[w] \in {"fetch", "done"}

\* A walk is handing out the first page's items and has requested page 1
\* only.
C2_Witness ==
  \E w \in Walks :
    /\ pc[w] = "suspended"
    /\ Len(requests[w]) = 1
    /\ Len(yielded[w]) = 1
    /\ Len(PageItems(1)) = 2
    /\ WireHasMore(1)

\* C3: a walk goes from the end of a page to a request for the next page
\* exactly when the page's hasMore is true, and to DONE exactly when it is
\* false, whatever the number of items and the envelope's page, limit and
\* total.
C3_HasMoreDecides ==
  [][ \A w \in Walks :
        (pc[w] = "loop" /\ pc'[w] \notin {"loop", "suspended"}) =>
          LET n == Len(requests[w]) IN
          \/ /\ WireHasMore(n)
             /\ pc'[w] = "fetch"
             /\ page'[w] = n + 1
          \/ /\ ~WireHasMore(n)
             /\ pc'[w] = "done" ]_vars

\* A short page with hasMore true was followed by a request, and a
\* full-size page with hasMore false ended the walk.
C3_Witness ==
  \E w \in Walks :
    /\ WirePageOk(1) /\ WirePageOk(2)
    /\ Len(PageItems(1)) < serverPages[1].json["limit"] /\ WireHasMore(1)
    /\ Len(PageItems(2)) = serverPages[2].json["limit"] /\ ~WireHasMore(2)
    /\ pc[w] = "done"
    /\ Len(requests[w]) = 2

\* C4: a walk that has consumed a page with has_more false goes to DONE; a
\* walk that is DONE stays DONE, yields nothing and requests nothing; and
\* against a server whose pages end with a hasMore false page, every walk
\* reaches DONE (DONE being stable, all walks are then DONE together).
C4_Finite ==
  /\ [][ \A w \in Walks :
           /\ ( /\ pc[w] = "loop"
                /\ idx[w] > Len(result[w].items)
                /\ ~result[w].has_more
                /\ WalkState(w)' # WalkState(w) ) => pc'[w] = "done"
           /\ pc[w] = "done" => WalkState(w)' = WalkState(w) ]_vars
  /\ (\E n \in 1..MaxPages : EndsAt(n)) ~> (\A w \in Walks : pc[w] = "done")

\* A walk over three pages, the second of them empty, is DONE.
C4_Witness ==
  \E w \in Walks :
    /\ EndsAt(3)
    /\ PageItems(2) = <<>>
    /\ pc[w] = "done"
    /\ Len(requests[w]) = 3

\* C5: when the fetch of page k fails, the walk is failed at once with the
\* executor's error (or a decoding error), having yielded every item of
\* pages 1..k-1 and none of page k and having requested pages 1..k once
\* each; a failed walk never changes again.
C5_Failure ==
  /\ [](\A w \in Walks : \A k \in 1..MaxPages :
          (FailsAt(k) /\ Len(requests[w]) >= k) =>
            /\ pc[w] = "failed"
            /\ PagesAsked(w) = UpTo(k)
            /\ yielded[w] = Flatten(k - 1)
            /\ IF "raise" \in DOMAIN serverPages[k]
                 THEN error[w] = serverPages[k].raise
                 ELSE error[w].type \in {"KeyError", "ValueError"})
  /\ [](\A w \in Walks :
          pc[w] = "failed" <=> error[w] # NoError)
  /\ [][ \A w \in Walks :
           pc[w] = "failed" => WalkState(w)' = WalkState(w) ]_vars

\* Page 2 holds a good item followed by an item that does not decode: the
\* walk failed after page 1's items and before any item of page 2.
C5_Witness ==
  \E w \in Walks :
    /\ FailsAt(2)
    /\ "json" \in DOMAIN serverPages[2]
    /\ Len(GetItems(serverPages[2].json)) = 2
    /\ Len(PageItems(1)) = 2
    /\ pc[w] = "failed"
    /\ Len(yielded[w]) = 2

\* What a walk run alone requests and yields, from page k on.
RECURSIVE SoloPages(_)
SoloPages(k) ==
  IF k > MaxPages THEN <<>>
  ELSE IF WirePageOk(k) /\ WireHasMore(k) THEN << k >> \o SoloPages(k + 1)
  ELSE << k >>

RECURSIVE SoloYield(_)
SoloYield(k) ==
  IF k > MaxPages \/ ~WirePageOk(k) THEN <<>>
  ELSE IF WireHasMore(k) THEN PageItems(k) \o SoloYield(k + 1)
  ELSE PageItems(k)

\* C6: a step changes the state of at most one walk; a walk starts at page
\* 1; and in every interleaving each walk has requested and yielded a prefix
\* of what it requests and yields alone, all of it once it is finished.
C6_Independent ==
  /\ [](\A w \in Walks :
          /\ IsPrefix(PagesAsked(w), SoloPages(1))
          /\ IsPrefix(yielded[w], SoloYield(1))
          /\ pc[w] \in {"done", "failed"} =>
               /\ PagesAsked(w) = SoloPages(1)
               /\ yielded[w] = SoloYield(1))
  /\ [][ \A w \in Walks :
           /\ WalkState(w)' # WalkState(w) =>
                \A v \in Walks \ {w} : WalkState(v)' = WalkState(v)
           /\ (pc[w] = "new" /\ pc'[w] # "new") => page'[w] = 1 ]_vars

\* Two walks in flight at different pages of the same resource.
C6_Witness ==
  /\ pc["w1"] = "suspended" /\ page["w1"] = 3
  /\ pc["w2"] = "suspended" /\ page["w2"] = 1
  /\ Len(yielded["w1"]) > Len(yielded["w2"])

\* The executor's answer to the one request of the last direct call.
LastReply ==
  CASE last.op = "all" -> request_forms(last.requests[1].params)
    [] last.op = "get" -> request_form(last.args.form_id)
    [] last.op = "create" -> request_create(last.requests[1].json)

\* What decoding the executor's JSON answer gives for the last direct call.
LastDecoded ==
  CASE last.op = "all" -> PaginatedForms_from_dict(LastReply.json)
    [] last.op = "get" -> FormDetails_from_dict(LastReply.json)
    [] last.op = "create" -> FormCreated_from_dict(LastReply.json)

\* C7: a call of all, get or create has issued exactly one request; when the
\* executor raised, the call raises that same error; when decoding the
\* answer raised, the call raises that error; otherwise it returns the decoded
\* value.  get of an id the server does not hold raises NotFoundError.
C7_OneRequestFailuresSurface ==
  last.op \in {"all", "get", "create"} =>
    /\ Len(last.requests) = 1
    /\ IF "raise" \in DOMAIN LastReply
         THEN last.result = Raise(LastReply.raise)
         ELSE /\ last.result.ok = LastDecoded.ok
              /\ ~LastDecoded.ok => last.result = Raise(LastDecoded.error)
    /\ (last.op = "get" /\ last.args.form_id \notin DOMAIN backend.form) =>
         last.result = Raise(NotFoundError)

\* get("missing-id") against a server without that form.
C7_Witness ==
  /\ last.op = "get"
  /\ last.args.form_id = "missing-id"
  /\ "missing-id" \notin DOMAIN backend.form
  /\ last.result = Raise(NotFoundError)
  /\ Len(last.requests) = 1

\* C8: the one request of all(page, limit, workspace_ids) is GET /forms with
\* the caller's page and limit unchanged, with workspaceIds equal to the
\* caller's list when one is given, and with no workspaceIds key when none is.
C8_ArgumentsPassThrough ==
  last.op = "all" =>
    LET req == last.requests[1] IN
    /\ Len(last.requests) = 1
    /\ req.method = "GET" /\ req.path = << "forms" >>
    /\ req.params["page"] = last.args.page
    /\ req.params["limit"] = last.args.limit
    /\ IF last.args.workspace_ids = None
         THEN DOMAIN req.params = {"page", "limit"}
         ELSE /\ DOMAIN req.params = {"page", "limit", "workspaceIds"}
              /\ req.params["workspaceIds"] = last.args.workspace_ids.some

\* all(page=0, limit=501, workspace_ids=["ws2", "ws1"]): both numbers out of
\* range, the filter not in sorted order.
C8_Witness ==
  /\ last.op = "all"
  /\ last.args.page = 0
  /\ last.args.limit = 501
  /\ last.args.workspace_ids = Some(<< "ws2", "ws1" >>)
  /\ last.requests[1].params["limit"] = 501

\* C9: an encoded payload holds a key only for a field the caller set: the
\* settings payload holds exactly the wire keys of the settings given to the
\* constructor, a block's payload key is there exactly when the block has a
\* payload, the body of create holds workspaceId, templateId and settings
\* exactly when they are given, and no such key is null.
C9_PresenceFidelity ==
  /\ last.op = "FormSettings.to_dict" =>
       /\ DOMAIN last.result =
            { FieldOfAttr(a).key :
                a \in { b \in DOMAIN last.args : last.args[b] # None } }
       /\ \A k \in DOMAIN last.result : last.result[k] # None
  /\ last.op = "FormBlock.to_dict" =>
       /\ DOMAIN last.result =
            {"uuid", "type", "groupUuid", "groupType"}
              \cup (IF last.args.payload # None THEN {"payload"} ELSE {})
       /\ "payload" \in DOMAIN last.result => last.result["payload"] # None
  /\ last.op = "create" =>
       LET body == last.requests[1].json IN
       /\ DOMAIN body =
            {"status", "blocks"}
              \cup (IF last.args.workspace_id # None THEN {"workspaceId"} ELSE {})
              \cup (IF last.args.template_id # None THEN {"templateId"} ELSE {})
              \cup (IF last.args.settings # None THEN {"settings"} ELSE {})
       /\ "settings" \in DOMAIN body => body["settings"] # None
       /\ \A i \in 1..Len(last.args.blocks) :
            "cls" \in DOMAIN last.args.blocks[i] =>
              ("payload" \in DOMAIN body["blocks"][i]
                 <=> last.args.blocks[i].payload # None)

\* C10: decoding a form that has every required key and a status outside
\* the enumeration, or a page holding such a form, raises DecodingError.
C10_StatusStrict ==
  /\ ( /\ last.op \in {"Form.from_dict", "FormCreated.from_dict"}
       /\ \A i \in 1..Len(FormKeys) : FormKeys[i] \in DOMAIN last.args
       /\ last.args["status"] \notin FormStatusValues ) =>
         /\ ~last.result.ok
         /\ last.result.error.type = "DecodingError"
  /\ ( /\ last.op = "PaginatedForms.from_dict"
       /\ \E i \in 1..Len(GetItems(last.args)) :
            GetItems(last.args)[i]["status"] \notin FormStatusValues ) =>
         /\ ~last.result.ok
         /\ last.result.error.type = "DecodingError"

\* C11: decoding a form that lacks one of its eight required keys, or a
\* paginated envelope that lacks one of items, page, limit, total and
\* hasMore, raises DecodingError and returns no entity.
C11_RequiredStrict ==
  /\ ( /\ last.op \in {"Form.from_dict", "FormCreated.from_dict"}
       /\ \E i \in 1..Len(FormKeys) : FormKeys[i] \notin DOMAIN last.args ) =>
         /\ ~last.result.ok
         /\ last.result.error.type = "DecodingError"
  /\ ( /\ last.op = "PaginatedForms.from_dict"
       /\ \E i \in 1..Len(EnvelopeKeys) :
            EnvelopeKeys[i] \notin DOMAIN last.args ) =>
         /\ ~last.result.ok
         /\ last.result.error.type = "DecodingError"

\* The wire tag the caller means by a type: the string itself, or the
\* catalogue member's string.
TagGiven(t) == IF "str" \in DOMAIN t THEN t.str ELSE t.member

\* The block is written out as the caller built it.
WrittenAsGiven(b, d) ==
  /\ d["uuid"] = b.uuid
  /\ d["groupUuid"] = b.group_uuid
  /\ d["type"] = TagGiven(b.type)
  /\ d["groupType"] = TagGiven(b.group_type)
  /\ "enum" \in DOMAIN b.type => d["type"] \in BlockTypeValues
  /\ "enum" \in DOMAIN b.group_type => d["groupType"] \in BlockTypeValues
  /\ b.payload # None => d["payload"] = b.payload.some

\* C12: encoding a block, by itself or in the body of create, gives its type
\* and groupType as the caller's string unchanged, or as the catalogue
\* member's wire string, whatever the payload, and gives the payload with
\* exactly the caller's keys and values; a block given to create as a plain
\* dict is in the body unchanged.
C12_ForwardCompatibleBlocks ==
  /\ last.op = "FormBlock.to_dict" => WrittenAsGiven(last.args, last.result)
  /\ last.op = "create" =>
       LET sent == last.requests[1].json["blocks"] IN
       \A i \in 1..Len(last.args.blocks) :
         IF "cls" \in DOMAIN last.args.blocks[i]
           THEN WrittenAsGiven(last.args.blocks[i], sent[i])
           ELSE sent[i] = last.args.blocks[i].dict

\* A block of a type outside the catalogue, in a group of a catalogue type,
\* with a payload field the client does not know, has been encoded.
C12_Witness ==
  /\ last.op = "FormBlock.to_dict"
  /\ last.args.type = [str |-> "SOME_FUTURE_TYPE"]
  /\ "enum" \in DOMAIN last.args.group_type
  /\ last.args.payload = Some([isHidden |-> TRUE, futureKey |-> "x"])
  /\ last.result["type"] = "SOME_FUTURE_TYPE"
  /\ last.result["payload"]["futureKey"] = "x"

\* Two blocks that are equal as Python values: a BlockType member equals the
\* string that is its value.
SameBlock(x, y) ==
  /\ x.uuid = y.uuid
  /\ x.group_uuid = y.group_uuid
  /\ TagGiven(x.type) = TagGiven(y.type)
  /\ TagGiven(x.group_type) = TagGiven(y.group_type)
  /\ x.payload = y.payload

SameFormValues(x, y) ==
  /\ x.id = y.id
  /\ x.name = y.name
  /\ x.workspace_id = y.workspace_id
  /\ x.status = y.status
  /\ x.number_of_submissions = y.number_of_submissions
  /\ x.is_closed = y.is_closed
  /\ x.created_at = y.created_at
  /\ x.updated_at = y.updated_at
  /\ x.payments = y.payments

\* FormCreated.from_dict gave for the object what Form.from_dict gives.
DecodedAsARead(data, r) ==
  LET f == Form_from_dict(data) IN
  /\ r.ok = f.ok
  /\ r.ok => SameFormValues(r.value, f.value)

\* C14: create has issued one POST /forms whose body holds status, the
\* caller's string or the enum member's wire string, and blocks, with one
\* entry per block given in the order given; what it returns is the
\* executor's answer decoded as Form.from_dict decodes it; and for every
\* wire object FormCreated.from_dict and Form.from_dict both fail, or both
\* succeed with equal values of the nine attributes.
C14_CreateSharesReadSchema ==
  /\ last.op = "create" =>
       LET req == last.requests[1]
           body == req.json
       IN /\ Len(last.requests) = 1
          /\ req.method = "POST" /\ req.path = << "forms" >>
          /\ {"status", "blocks"} \subseteq DOMAIN body
          /\ body["status"] = TagGiven(last.args.status)
          /\ "enum" \in DOMAIN last.args.status =>
               body["status"] \in FormStatusValues
          /\ Len(body["blocks"]) = Len(last.args.blocks)
          /\ \A i \in 1..Len(last.args.blocks) :
               IF "cls" \in DOMAIN last.args.blocks[i]
                 THEN /\ body["blocks"][i]["uuid"] = last.args.blocks[i].uuid
                      /\ body["blocks"][i]["type"] =
                           TagGiven(last.args.blocks[i].type)
                 ELSE body["blocks"][i] = last.args.blocks[i].dict
          /\ "json" \in DOMAIN backend.post =>
               DecodedAsARead(backend.post.json, last.result)
  /\ last.op = "FormCreated.from_dict" =>
       DecodedAsARead(last.args, last.result)

\* create(FormStatus.DRAFT, [a dict block, a FormBlock]) sent both blocks in
\* that order and returned the created form.
C14_Witness ==
  /\ last.op = "create"
  /\ last.args.status = [enum |-> "FormStatus", member |-> "DRAFT"]
  /\ Len(last.args.blocks) = 2
  /\ "dict" \in DOMAIN last.args.blocks[1]
  /\ last.requests[1].json["status"] = "DRAFT"
  /\ last.requests[1].json["blocks"][2]["type"] = "SOME_FUTURE_TYPE"
  /\ last.result.ok
  /\ last.result.value.class = "FormCreated"
  /\ last.result.value.id = "c"

\* C15: a decoded Form or FormCreated has payments = None when the wire
\* object has no payments key, a null or an empty list, and never an empty
\* list; for a non-empty wire list it has a list of the same length whose
\* i-th element is the payment decoded from the i-th wire element.
C15_PaymentsDecoding ==
  ( /\ last.op \in {"Form.from_dict", "FormCreated.from_dict"}
    /\ last.result.ok ) =>
      LET data == last.args
          payments == last.result.value.payments
      IN /\ payments # [list |-> <<>>]
         /\ IF \/ "payments" \notin DOMAIN data
               \/ data["payments"] = None
               \/ data["payments"].list = <<>>
              THEN payments = None
              ELSE /\ payments # None
                   /\ Len(payments.list) = Len(data["payments"].list)
                   /\ \A i \in 1..Len(payments.list) :
                        /\ payments.list[i].cls = "FormPayment"
                        /\ payments.list[i].amount =
                             data["payments"].list[i]["amount"]
                        /\ payments.list[i].currency =
                             data["payments"].list[i]["currency"]

\* A form with the payments 1999 EUR and 10 USD, in that order, is decoded.
C15_Witness ==
  /\ last.op = "Form.from_dict"
  /\ "payments" \in DOMAIN last.args
  /\ last.args["payments"] = [list |-> << WirePaymentEUR, WirePaymentUSD >>]
  /\ last.result.ok
  /\ Len(last.result.value.payments.list) = 2
  /\ last.result.value.payments.list[1].currency = "EUR"
  /\ last.result.value.payments.list[2].amount = 10

\* A form with an empty payments list is decoded.
C15_WitnessEmpty ==
  /\ last.op = "FormCreated.from_dict"
  /\ "payments" \in DOMAIN last.args
  /\ last.args["payments"] = [list |-> <<>>]
  /\ last.result.ok
  /\ last.result.value.payments = None

====
